---------------------------- MODULE Spec2Model ----------------------------
(***************************************************************************)
(* Model of pymatgen/io/lobster.py: the COHPCAR decoder (Cohpcar), its     *)
(* bond header parser (Cohpcar._get_bond_data) and the ICOHPLIST decoder   *)
(* (Icohplist).                                                            *)
(*                                                                         *)
(* Text is a sequence of one-character strings.  A Python float is the     *)
(* record [num |-> m, dec |-> d] standing for m / 10^d with no trailing    *)
(* zero decimal; a Python int is an integer.  A raised exception is the    *)
(* record [exc |-> <type>].                                                *)
(***************************************************************************)
EXTENDS Integers, Sequences, FiniteSets, TLC

VARIABLES mode, args, text, pc, result

vars == <<mode, args, text, pc, result>>

----------------------------------------------------------------------------
(* Bounds of the model *)

\* largest number of bonds a generated COHPCAR file declares
MaxBonds == 2
\* largest number of data rows of a generated COHPCAR file
MaxRows == 2
\* largest number of lines between the header and the trailer of a
\* generated ICOHPLIST file
MaxBody == 5
\* generated bond header lines take their zero-based site indices from
\* 0..MaxSite and from 8 and 9 (two-digit 1-based index)
MaxSite == 1
\* largest tag number n of a generated "No.<n>" header line
MaxTag == 2

----------------------------------------------------------------------------
(* Characters and Python string primitives *)

Digits == {"0", "1", "2", "3", "4", "5", "6", "7", "8", "9"}

Whitespace == {" ", "\t"}

IsErr(v) == "exc" \in DOMAIN v

Err(type) == [exc |-> type]

DigitVal(c) ==
    CASE c = "0" -> 0 [] c = "1" -> 1 [] c = "2" -> 2 [] c = "3" -> 3
      [] c = "4" -> 4 [] c = "5" -> 5 [] c = "6" -> 6 [] c = "7" -> 7
      [] c = "8" -> 8 [] c = "9" -> 9

DigitChar(n) ==
    CASE n = 0 -> "0" [] n = 1 -> "1" [] n = 2 -> "2" [] n = 3 -> "3"
      [] n = 4 -> "4" [] n = 5 -> "5" [] n = 6 -> "6" [] n = 7 -> "7"
      [] n = 8 -> "8" [] n = 9 -> "9"

\* does character c belong to the separator class cls: the regular
\* expression classes \d and \D, whitespace, or the literal character cls
IsSep(c, cls) ==
    CASE cls = "\\d" -> c \in Digits
      [] cls = "\\D" -> c \notin Digits
      [] cls = "ws"  -> c \in Whitespace
      [] OTHER       -> c = cls

\* the k-th smallest element of the set of integers S
Kth(S, k) == CHOOSE x \in S : Cardinality({y \in S : y < x}) = k - 1

\* the pieces of s between its separators of class cls; with merge, a
\* maximal run of separator characters is one separator
Split(s, cls, merge) ==
    LET sepAt(i) == IsSep(s[i], cls)
        starts == {i \in 1..Len(s) :
                      sepAt(i) /\ (~merge \/ i = 1 \/ ~sepAt(i - 1))}
        ends == {i \in 1..Len(s) :
                      sepAt(i) /\ (~merge \/ i = Len(s) \/ ~sepAt(i + 1))}
        n == Cardinality(starts)
    IN  [j \in 1..(n + 1) |->
            SubSeq(s, IF j = 1 THEN 1 ELSE Kth(ends, j - 1) + 1,
                      IF j = n + 1 THEN Len(s) ELSE Kth(starts, j) - 1)]

\* str.split(sep) for a one-character sep: always one piece more than
\* there are separators
SplitOn(s, sep) == Split(s, sep, FALSE)

\* re.split(pattern, s) for the patterns "\D+" and "\d+": the pieces
\* between maximal runs of the class, empty pieces at the ends included
ReSplit(cls, s) == Split(s, cls, TRUE)

\* str.split(): the pieces between runs of whitespace, empty pieces dropped
SplitWS(s) == SelectSeq(Split(s, "ws", TRUE), LAMBDA p : p # <<>>)

RECURSIVE ReplaceArrowFrom(_, _)
ReplaceArrowFrom(s, i) ==
    IF i > Len(s) THEN <<>>
    ELSE IF i < Len(s) /\ s[i] = "-" /\ s[i + 1] = ">"
         THEN <<":">> \o ReplaceArrowFrom(s, i + 2)
         ELSE <<s[i]>> \o ReplaceArrowFrom(s, i + 1)

\* s.replace("->", ":")
ReplaceArrow(s) == ReplaceArrowFrom(s, 1)

RECURSIVE ContainsFrom(_, _, _)
ContainsFrom(s, w, i) ==
    IF i + Len(w) - 1 > Len(s) THEN FALSE
    ELSE IF SubSeq(s, i, i + Len(w) - 1) = w THEN TRUE
         ELSE ContainsFrom(s, w, i + 1)

\* w in s
Contains(s, w) == ContainsFrom(s, w, 1)

RECURSIVE DigitsVal(_)
DigitsVal(s) ==
    IF s = <<>> THEN 0
    ELSE 10 * DigitsVal(SubSeq(s, 1, Len(s) - 1)) + DigitVal(s[Len(s)])

AllDigits(s) == \A i \in 1..Len(s) : s[i] \in Digits

Unsigned(s) == IF s # <<>> /\ s[1] \in {"-", "+"} THEN Tail(s) ELSE s

IsNeg(s) == s # <<>> /\ s[1] = "-"

\* does int(s) return: an optional sign and at least one decimal digit
IntOk(s) == Unsigned(s) # <<>> /\ AllDigits(Unsigned(s))

\* int(s) where it returns
ParseInt(s) ==
    IF IsNeg(s) THEN 0 - DigitsVal(Unsigned(s)) ELSE DigitsVal(Unsigned(s))

RECURSIVE Norm(_, _)
Norm(m, d) ==
    IF d > 0 /\ m % 10 = 0 THEN Norm(m \div 10, d - 1)
    ELSE [num |-> m, dec |-> d]

\* float(s) for decimal notation: an optional sign, digits with at most
\* one point, at least one digit
ParseFloat(s) ==
    LET u == Unsigned(s)
        p == SplitOn(u, ".")
        ip == p[1]
        fp == IF Len(p) = 2 THEN p[2] ELSE <<>>
    IN  IF Len(p) <= 2 /\ AllDigits(ip) /\ AllDigits(fp) /\ ip \o fp # <<>>
        THEN LET m == DigitsVal(ip \o fp)
             IN  Norm(IF IsNeg(s) THEN 0 - m ELSE m, Len(fp))
        ELSE Err("ValueError")

RECURSIVE NatStr(_)
NatStr(n) ==
    IF n < 10 THEN <<DigitChar(n)>>
    ELSE NatStr(n \div 10) \o <<DigitChar(n % 10)>>

\* "%d" % n
IntStr(n) == IF n < 0 THEN <<"-">> \o NatStr(0 - n) ELSE NatStr(n)

----------------------------------------------------------------------------
(* Cohpcar._get_bond_data *)

AVERAGE == <<"a", "v", "e", "r", "a", "g", "e">>

\* seq[lo:hi] of Python for 0 <= lo <= hi
Slice(seq, lo, hi) ==
    SubSeq(seq, lo + 1, IF hi < Len(seq) THEN hi ELSE Len(seq))

\* line.split("(")[-1][:-1]: the text after the last "(" without its
\* last character
LengthText(line) ==
    LET parts == SplitOn(line, "(")
        last == parts[Len(parts)]
    IN  SubSeq(last, 1, Len(last) - 1)

\* line.split("(")[0].replace("->", ":").split(":")[1:3]
SiteTokens(line) ==
    Slice(SplitOn(ReplaceArrow(SplitOn(line, "(")[1]), ":"), 1, 3)

\* the exception int(re.split("\D+", site)[1]) raises, or "none"
SiteIndexExc(site) ==
    LET pieces == ReSplit("\\D", site)
    IN  IF Len(pieces) < 2 THEN "IndexError"
        ELSE IF ~IntOk(pieces[2]) THEN "ValueError"
        ELSE "none"

\* the site index left 1-based: int(re.split("\D+", site)[1])
SiteIndexOneBased(site) == ParseInt(ReSplit("\\D", site)[2])

\* int(re.split("\D+", site)[1]) - 1
SiteIndex(site) == ParseInt(ReSplit("\\D", site)[2]) - 1

\* re.split("\d+", site)[0]
Species(site) == ReSplit("\\d", site)[1]

\* "%s%d-%s%d" % (species[0], site_indices[0] + 1,
\*                species[1], site_indices[1] + 1)
Label(species, site_indices) ==
    species[1] \o IntStr(site_indices[1] + 1) \o <<"-">>
        \o species[2] \o IntStr(site_indices[2] + 1)

\* _get_bond_data(line): the record (label, length, site_indices), or the
\* exception the first failing statement raises
GetBondData(line) ==
    LET length == ParseFloat(LengthText(line))
        sites == SiteTokens(line)
        bad == {i \in 1..Len(sites) : SiteIndexExc(sites[i]) # "none"}
    IN  IF IsErr(length) THEN length
        ELSE IF bad # {}
        THEN Err(SiteIndexExc(sites[CHOOSE i \in bad : \A j \in bad : i <= j]))
        ELSE IF Len(sites) < 2 THEN Err("IndexError")
        ELSE LET site_indices == [i \in 1..2 |-> SiteIndex(sites[i])]
                 species == [i \in 1..2 |-> Species(sites[i])]
             IN  [label |-> Label(species, site_indices),
                  length |-> length,
                  sites |-> site_indices]

----------------------------------------------------------------------------
(* Cohpcar.__init__ *)

\* f.read().split("\n")
Lines(txt) == SplitOn(txt, "\n")

\* d[k] = v on a dict
Put(d, k, v) == [x \in DOMAIN d \cup {k} |-> IF x = k THEN v ELSE d[x]]

\* the empty dict
EmptyDict == [x \in {} |-> x]

\* the test written as "int(parameters[1]) == 1"
SpinPolarizedIfOne(flag) == flag = 1

\* the test "int(parameters[1]) == 2" of Cohpcar.__init__, which sets
\* is_spin_polarized
SpinPolarized(flag) == flag = 2

\* spins of Cohpcar.__init__: [Spin.up, Spin.down] when spin polarized,
\* [Spin.up] otherwise
Spins(flag) == IF SpinPolarized(flag) THEN <<"up", "down">> ELSE <<"up">>

\* index into data of the average's COHP for the s-th entry of spins
AvgCohpCol(s, num_bonds) == 1 + 2 * s * (num_bonds + 1)

\* the average's ICOHP read from the column of its COHP
AvgIcohpColSame(s, num_bonds) == 1 + 2 * s * (num_bonds + 1)

\* index into data of the average's ICOHP for the s-th entry of spins
AvgIcohpCol(s, num_bonds) == 2 + 2 * s * (num_bonds + 1)

\* the spin block taken as 2*num_bonds wide, the average left out
BondCohpColNoAverage(bond, s, num_bonds) == 2 * (bond + s * num_bonds) + 3

\* index into data of the COHP of bond for the s-th entry of spins
BondCohpCol(bond, s, num_bonds) == 2 * (bond + s * (num_bonds + 1)) + 3

\* index into data of the ICOHP of bond for the s-th entry of spins
BondIcohpCol(bond, s, num_bonds) == 2 * (bond + s * (num_bonds + 1)) + 4

\* the data taken to start one line later: contents[num_bonds+4:]
DataRowsSkipFirst(contents, num_bonds) ==
    SubSeq(contents, num_bonds + 5, Len(contents))

\* contents[num_bonds+3:]
DataRows(contents, num_bonds) == Slice(contents, num_bonds + 3, Len(contents))

\* [np.array(row.split(), dtype=float) for row in rows]
ParseRows(rows) ==
    [r \in 1..Len(rows) |->
        LET toks == SplitWS(rows[r])
        IN  [c \in 1..Len(toks) |-> ParseFloat(toks[c])]]

RowsBad(parsed) ==
    \E r \in 1..Len(parsed) : \E c \in 1..Len(parsed[r]) : IsErr(parsed[r][c])

\* np.array(rows) has two axes only when all rows have one length; rows
\* of different lengths raise ValueError (NumPy 1.24 and later)
Ragged(parsed) ==
    \E r1, r2 \in 1..Len(parsed) : Len(parsed[r1]) # Len(parsed[r2])

\* number of rows of np.array(rows).transpose()
NumCols(parsed) == IF Len(parsed) = 0 THEN 0 ELSE Len(parsed[1])

\* data[k] of data = np.array(rows).transpose(), k counted from 0
DataCol(parsed, k) == [r \in 1..Len(parsed) |-> parsed[r][k + 1]]

\* {spin: data[col(s)] for s, spin in enumerate(spins)}
BySpin(spins, cols, parsed) ==
    [sp \in {spins[i] : i \in 1..Len(spins)} |->
        DataCol(parsed, cols[CHOOSE i \in 1..Len(spins) : spins[i] = sp])]

\* the loop "for bond in range(num_bonds)" of Cohpcar.__init__ from
\* index bond on: cohp_data after it (field dict), or the exception it
\* raises
RECURSIVE CohpBonds(_, _, _, _, _, _)
CohpBonds(contents, parsed, spins, num_bonds, bond, cohp_data) ==
    IF bond >= num_bonds THEN [dict |-> cohp_data]
    ELSE IF 3 + bond >= Len(contents) THEN Err("IndexError")
    ELSE LET bd == GetBondData(contents[3 + bond + 1])
             ccol == [i \in 1..Len(spins) |-> BondCohpCol(bond, i - 1, num_bonds)]
             icol == [i \in 1..Len(spins) |-> BondIcohpCol(bond, i - 1, num_bonds)]
         IN  IF IsErr(bd) THEN bd
             ELSE IF \E i \in 1..Len(spins) :
                        ccol[i] >= NumCols(parsed) \/ icol[i] >= NumCols(parsed)
             THEN Err("IndexError")
             ELSE CohpBonds(contents, parsed, spins, num_bonds, bond + 1,
                            Put(cohp_data, bd.label,
                                [COHP |-> BySpin(spins, ccol, parsed),
                                 ICOHP |-> BySpin(spins, icol, parsed),
                                 length |-> bd.length,
                                 sites |-> bd.sites]))

\* Cohpcar(filename=...) on a file holding txt: the attributes of the
\* instance, or the exception the constructor raises.  Header counts below
\* 1 (a negative num_bonds) are outside the model.
Cohpcar(txt) ==
    LET contents == Lines(txt)
    IN  IF Len(contents) < 2 THEN Err("IndexError")
        ELSE
        LET parameters == SplitWS(contents[2])
        IN  IF parameters = <<>> THEN Err("IndexError")
            ELSE IF ~IntOk(parameters[1]) THEN Err("ValueError")
            ELSE IF IsErr(ParseFloat(parameters[Len(parameters)]))
            THEN Err("ValueError")
            ELSE IF Len(parameters) < 2 THEN Err("IndexError")
            ELSE IF ~IntOk(parameters[2]) THEN Err("ValueError")
            ELSE
            LET num_bonds == ParseInt(parameters[1]) - 1
                spins == Spins(ParseInt(parameters[2]))
                parsed == ParseRows(DataRows(contents, num_bonds))
                acol == [i \in 1..Len(spins) |-> AvgCohpCol(i - 1, num_bonds)]
                aicol == [i \in 1..Len(spins) |-> AvgIcohpCol(i - 1, num_bonds)]
            IN  IF RowsBad(parsed) \/ Ragged(parsed) THEN Err("ValueError")
                ELSE IF NumCols(parsed) = 0 THEN Err("IndexError")
                ELSE IF \E i \in 1..Len(spins) :
                           acol[i] >= NumCols(parsed) \/ aicol[i] >= NumCols(parsed)
                THEN Err("IndexError")
                ELSE
                LET built ==
                        CohpBonds(contents, parsed, spins, num_bonds, 0,
                                  Put(EmptyDict, AVERAGE,
                                      [COHP |-> BySpin(spins, acol, parsed),
                                       ICOHP |-> BySpin(spins, aicol, parsed)]))
                IN  IF IsErr(built) THEN built
                    ELSE [efermi |-> ParseFloat(parameters[Len(parameters)]),
                          is_spin_polarized |-> SpinPolarized(ParseInt(parameters[2])),
                          energies |-> DataCol(parsed, 0),
                          cohp_data |-> built.dict]

----------------------------------------------------------------------------
(* Icohplist.__init__ *)

DISTANCE == <<"d", "i", "s", "t", "a", "n", "c", "e">>

\* f.read().split("\n")[1:-1]
ListData(txt) == LET all == Lines(txt) IN SubSeq(all, 2, Len(all) - 1)

\* "distance" in data[len(data)//2], for a non-empty data
MidHasDistance(data) == Contains(data[(Len(data) \div 2) + 1], DISTANCE)

\* num_bonds taken as len(data)//2 in both branches
ListNumBondsHalf(data) == Len(data) \div 2

\* num_bonds of Icohplist.__init__
ListNumBonds(data) ==
    IF MidHasDistance(data) THEN Len(data) \div 2 ELSE Len(data)

\* the exception the statements reading the spin-up line raise, or "none"
UpLineExc(line) ==
    IF Len(line) < 3 THEN "IndexError"
    ELSE IF Len(line) < 4 THEN "IndexError"
    ELSE IF IsErr(ParseFloat(line[4])) THEN "ValueError"
    ELSE IF Len(line) < 5 THEN "IndexError"
    ELSE IF IsErr(ParseFloat(line[5])) THEN "ValueError"
    ELSE IF Len(line) < 6 THEN "IndexError"
    ELSE IF ~IntOk(line[6]) THEN "ValueError"
    ELSE "none"

\* the exception float(data[bond+num_bonds+1].split()[4]) raises, or "none"
DownLineExc(data, k) ==
    IF k >= Len(data) THEN "IndexError"
    ELSE IF Len(SplitWS(data[k + 1])) < 5 THEN "IndexError"
    ELSE IF IsErr(ParseFloat(SplitWS(data[k + 1])[5])) THEN "ValueError"
    ELSE "none"

\* the spin-down line taken without the bond index: num_bonds + 1
DownLineFirst(bond, num_bonds) == num_bonds + 1

\* index into data of the spin-down line of bond
DownLine(bond, num_bonds) == bond + num_bonds + 1

\* the loop "for bond in range(num_bonds)" of Icohplist.__init__ from
\* index bond on: icohplist after it (field dict), or the exception it
\* raises
RECURSIVE ListBonds(_, _, _, _, _)
ListBonds(data, polarized, num_bonds, bond, icohplist) ==
    IF bond >= num_bonds THEN [dict |-> icohplist]
    ELSE LET line == SplitWS(data[bond + 1])
         IN  IF UpLineExc(line) # "none" THEN Err(UpLineExc(line))
             ELSE IF polarized
                     /\ DownLineExc(data, DownLine(bond, num_bonds)) # "none"
             THEN Err(DownLineExc(data, DownLine(bond, num_bonds)))
             ELSE
             LET label == line[2] \o <<"-">> \o line[3]
                 up == ParseFloat(line[5])
                 down == ParseFloat(SplitWS(data[DownLine(bond, num_bonds) + 1])[5])
                 rec == [length |-> ParseFloat(line[4]),
                         number_of_bonds |-> ParseInt(line[6]),
                         icohp |-> IF polarized
                                   THEN [sp \in {"up", "down"} |->
                                            IF sp = "up" THEN up ELSE down]
                                   ELSE [sp \in {"up"} |-> up]]
             IN  ListBonds(data, polarized, num_bonds, bond + 1,
                           Put(icohplist, label, rec))

\* Icohplist(filename=...) on a file holding txt: the attributes of the
\* instance, or the exception the constructor raises
Icohplist(txt) ==
    LET data == ListData(txt)
    IN  IF data = <<>> THEN Err("IndexError")
        ELSE LET polarized == MidHasDistance(data)
                 built == ListBonds(data, polarized, ListNumBonds(data),
                                    0, EmptyDict)
             IN  IF IsErr(built) THEN built
                 ELSE [is_spin_polarized |-> polarized,
                       icohplist |-> built.dict]

----------------------------------------------------------------------------
(* The files and header lines the decoders are run on *)

RECURSIVE Join(_, _)
\* sep.join(parts)
Join(parts, sep) ==
    IF parts = <<>> THEN <<>>
    ELSE IF Len(parts) = 1 THEN parts[1]
    ELSE parts[1] \o sep \o Join(Tail(parts), sep)

RECURSIVE Pow10(_)
Pow10(d) == IF d = 0 THEN 1 ELSE 10 * Pow10(d - 1)

RECURSIVE ZeroPad(_, _)
ZeroPad(s, width) == IF Len(s) >= width THEN s ELSE ZeroPad(<<"0">> \o s, width)

\* the decimal notation of the float v = [num, dec]: "2.5", "3.0", "0.05"
FloatStr(v) ==
    LET a == IF v.num < 0 THEN 0 - v.num ELSE v.num
        ip == NatStr(a \div Pow10(v.dec))
        fp == IF v.dec = 0 THEN <<"0">>
              ELSE ZeroPad(NatStr(a % Pow10(v.dec)), v.dec)
    IN  (IF v.num < 0 THEN <<"-">> ELSE <<>>) \o ip \o <<".">> \o fp

SpeciesPool == {<<"F", "e">>, <<"O">>}

SitePool == (0..MaxSite) \cup {8, 9}

LengthPool == {[num |-> 25, dec |-> 1], [num |-> 3, dec |-> 0],
               [num |-> 205, dec |-> 2], [num |-> 5, dec |-> 2],
               [num |-> -15, dec |-> 1]}

HeaderShapes == {"ok", "noclose", "nosuffix", "one", "three"}

\* "<sp><i+1>": a site token with its 1-based index
SiteToken(sp, i) == sp \o IntStr(i + 1)

\* the header line "No.<n>:<sp1><i1+1>-><sp2><i2+1>(<L>)" of a bond, or
\* one of its malformed variants: without the closing ")", without the
\* "(<L>)" suffix, with one site token, with three site tokens
EncodeHeader(h) ==
    LET tag == <<"N", "o", ".">> \o IntStr(h.n)
        s1 == SiteToken(h.sp1, h.i1)
        s2 == SiteToken(h.sp2, h.i2)
        arrow == <<"-", ">">>
        path == CASE h.shape = "one" -> tag \o <<":">> \o s1
                  [] h.shape = "three" ->
                         tag \o <<":">> \o s1 \o arrow \o s2 \o arrow \o s1
                  [] OTHER -> tag \o <<":">> \o s1 \o arrow \o s2
    IN  CASE h.shape = "nosuffix" -> path
          [] h.shape = "noclose" -> path \o <<"(">> \o FloatStr(h.L)
          [] OTHER -> path \o <<"(">> \o FloatStr(h.L) \o <<")">>

HeaderArgs ==
    [sp1 : SpeciesPool, i1 : SitePool, sp2 : SpeciesPool, i2 : SitePool,
     n : 1..MaxTag, L : LengthPool, shape : HeaderShapes]

Hdr(sp1, i1, sp2, i2, n, L, shape) ==
    [sp1 |-> sp1, i1 |-> i1, sp2 |-> sp2, i2 |-> i2, n |-> n, L |-> L,
     shape |-> shape]

\* the header lines a generated COHPCAR file is built from: two bonds
\* between the same pair of sites, a bond between another pair, a line
\* with one site token and a line with three
FileHeaderPool ==
    {Hdr(<<"F", "e">>, 0, <<"F", "e">>, 1, 1, [num |-> 25, dec |-> 1], "ok"),
     Hdr(<<"F", "e">>, 0, <<"F", "e">>, 1, 2, [num |-> 35, dec |-> 1], "ok"),
     Hdr(<<"F", "e">>, 0, <<"O">>, 2, 1, [num |-> 15, dec |-> 1], "ok"),
     Hdr(<<"F", "e">>, 0, <<"O">>, 2, 1, [num |-> 15, dec |-> 1], "one"),
     Hdr(<<"O">>, 2, <<"F", "e">>, 9, 3, [num |-> 205, dec |-> 2], "three")}

SeqsUpTo(S, n) == UNION {[1..k -> S] : k \in 0..n}

SpinFlags == {1, 2, 3}

RowShapes == {"ok", "narrow", "ragged", "trailing"}

\* number of spin channels a file with spin flag announces
NumSpins(flag) == IF flag = 2 THEN 2 ELSE 1

\* number of columns of a data row: the energy and, for every spin
\* channel, two columns for the average and two for every bond
Width(nb, flag) == 1 + 2 * (nb + 1) * NumSpins(flag)

\* the value written in row r (from 1), column c (from 0) of a generated
\* file: c.r, different in every column and every row
CellVal(r, c) == [num |-> 10 * c + r, dec |-> 1]

RowText(r, w) == Join([c \in 1..w |-> FloatStr(CellVal(r, c - 1))], <<" ">>)

CohpArgs ==
    {a \in [hdrs : SeqsUpTo(FileHeaderPool, MaxBonds), flag : SpinFlags,
            rows : 1..MaxRows, shape : RowShapes] : TRUE}

\* the text of a COHPCAR file: title, parameters, "Average", one header
\* line per bond, the data rows
EncodeCohpcar(a) ==
    LET nb == Len(a.hdrs)
        w == Width(nb, a.flag)
        params == IntStr(nb + 1) \o <<" ", " ">> \o IntStr(a.flag) \o <<" ">>
                      \o IntStr(a.rows) \o <<" ">> \o FloatStr([num |-> 0, dec |-> 0])
        rowtext == [r \in 1..a.rows |->
                       RowText(r, IF a.shape = "narrow"
                                     \/ (a.shape = "ragged" /\ r = a.rows)
                                  THEN w - 1 ELSE w)]
        body == Join(<<<<"C", "O", "H", "P">>, params, AVERAGE>>
                       \o [i \in 1..nb |-> EncodeHeader(a.hdrs[i])]
                       \o rowtext, <<"\n">>)
    IN  IF a.shape = "trailing" THEN body \o <<"\n">> ELSE body

LISTHEADER == <<"C", "O", "H", "P", "#", " ">> \o DISTANCE \o <<" ", "I", "C", "O", "H", "P">>

ListLinePool == {"hdr", "d1", "d2", "s5", "bl"}

\* the columns of the lines a generated ICOHPLIST file is built from: two
\* bonds (d1, d2) and a line with five columns (s5)
Fields(id) ==
    CASE id = "d1" -> [index |-> 1, elem1 |-> SiteToken(<<"F", "e">>, 0),
                       elem2 |-> SiteToken(<<"F", "e">>, 1),
                       length |-> [num |-> 25, dec |-> 1],
                       icohp |-> [num |-> -5, dec |-> 1], n |-> 1, cols |-> 6]
      [] id = "d2" -> [index |-> 2, elem1 |-> SiteToken(<<"F", "e">>, 0),
                       elem2 |-> SiteToken(<<"O">>, 2),
                       length |-> [num |-> 15, dec |-> 1],
                       icohp |-> [num |-> -125, dec |-> 2], n |-> 2, cols |-> 6]
      [] id = "s5" -> [index |-> 1, elem1 |-> SiteToken(<<"F", "e">>, 0),
                       elem2 |-> SiteToken(<<"F", "e">>, 1),
                       length |-> [num |-> 25, dec |-> 1],
                       icohp |-> [num |-> -75, dec |-> 2], n |-> 1, cols |-> 5]

\* the text of a line of the pool: the header line, a blank line (bl),
\* or the first cols columns
\* "<index> <elem1> <elem2> <length> <icohp> <n>" of a bond
ListLine(id) ==
    IF id = "hdr" THEN LISTHEADER
    ELSE IF id = "bl" THEN <<>>
    ELSE LET f == Fields(id)
         IN  Join(SubSeq(<<IntStr(f.index), f.elem1, f.elem2, FloatStr(f.length),
                           FloatStr(f.icohp), IntStr(f.n)>>, 1, f.cols),
                  IF id = "d2" THEN <<" ", " ">> ELSE <<" ">>)

ListArgs ==
    [wrap : {TRUE}, body : SeqsUpTo(ListLinePool, MaxBody)]
        \cup [wrap : {FALSE}, body : SeqsUpTo(ListLinePool, 1)]

\* the text of an ICOHPLIST file: with wrap, a header line, the body and a
\* trailing blank line; without, the body alone (a file of one line)
EncodeList(a) ==
    LET body == [i \in 1..Len(a.body) |-> ListLine(a.body[i])]
    IN  IF a.wrap THEN Join(<<LISTHEADER>> \o body \o <<<<>>>>, <<"\n">>)
        ELSE Join(body, <<"\n">>)

----------------------------------------------------------------------------
(* The state machine: a decoder is constructed once from a text *)

NoResult == [pending |-> TRUE]

Init ==
    /\ pc = "start"
    /\ result = NoResult
    /\ \/ mode = "bond" /\ args \in HeaderArgs /\ text = EncodeHeader(args)
       \/ mode = "cohpcar" /\ args \in CohpArgs /\ text = EncodeCohpcar(args)
       \/ mode = "icohplist" /\ args \in ListArgs /\ text = EncodeList(args)

\* a call of Cohpcar._get_bond_data(text)
BondData ==
    /\ mode = "bond" /\ pc = "start"
    /\ result' = GetBondData(text)
    /\ pc' = "done"
    /\ UNCHANGED <<mode, args, text>>

\* the construction of a Cohpcar from a file holding text
NewCohpcar ==
    /\ mode = "cohpcar" /\ pc = "start"
    /\ result' = Cohpcar(text)
    /\ pc' = "done"
    /\ UNCHANGED <<mode, args, text>>

\* the construction of an Icohplist from a file holding text
NewIcohplist ==
    /\ mode = "icohplist" /\ pc = "start"
    /\ result' = Icohplist(text)
    /\ pc' = "done"
    /\ UNCHANGED <<mode, args, text>>

Next == BondData \/ NewCohpcar \/ NewIcohplist

Spec == Init /\ [][Next]_vars

Decoded == pc = "done" /\ ~IsErr(result)

Failed == pc = "done" /\ IsErr(result)

----------------------------------------------------------------------------
(* What the generated inputs say, read off args and not off the decoder *)

CohpDone == mode = "cohpcar" /\ Decoded

ListDone == mode = "icohplist" /\ Decoded

BondDone == mode = "bond" /\ pc = "done"

\* the label "<sp1><i1+1>-<sp2><i2+1>" a header line stands for
HeaderLabel(h) == SiteToken(h.sp1, h.i1) \o <<"-">> \o SiteToken(h.sp2, h.i2)

\* bondCount: the first parameter of line 2 minus 1
BondCount == Len(args.hdrs)

\* the labels of the header lines of the file, bond 0 first
FileLabels == [i \in 1..BondCount |-> HeaderLabel(args.hdrs[i])]

\* the column of the file whose 0-based index is k: a value per data row
Col0(k) == [r \in 1..args.rows |-> CellVal(r, k)]

\* the column of the file whose 1-based number is k, the energy column
\* being column 1
Col1(k) == Col0(k - 1)

\* the index of spin channel sp in the order up, down
SpinIndex(sp) == IF sp = "up" THEN 0 ELSE 1

ChannelSet == IF args.flag = 2 THEN {"up", "down"} ELSE {"up"}

\* the 0-based index of the last header line that carries label
LastBond(label) ==
    (CHOOSE i \in 1..BondCount :
        /\ FileLabels[i] = label
        /\ \A j \in (i + 1)..BondCount : FileLabels[j] # label) - 1

\* the sequences of "average" are the columns at offsets
\* 1+2*s*(bondCount+1) and 2+2*s*(bondCount+1) from the energy column
AverageColumns ==
    \A sp \in ChannelSet :
       LET s == SpinIndex(sp)
           rec == result.cohp_data[AVERAGE]
       IN  /\ rec.COHP[sp] = Col0(1 + 2 * s * (BondCount + 1))
           /\ rec.ICOHP[sp] = Col0(2 + 2 * s * (BondCount + 1))

----------------------------------------------------------------------------
(* C1 *)

\* C1 as stated: in every decoded COHPCAR file, for every bond index i and
\* every spin channel s, the COHP sequence of bond i is column number
\* 2*(i + s*(bondCount+1)) + 3 and its ICOHP sequence column number
\* 2*(i + s*(bondCount+1)) + 4, columns numbered from 1 with the energy in
\* column 1; the sequences of "average" are the columns at offsets
\* 1+2*s*(bondCount+1) and 2+2*s*(bondCount+1) from the energy column.
C1_AsStated ==
    CohpDone =>
        /\ \A i \in 0..(BondCount - 1) : \A sp \in ChannelSet :
              LET s == SpinIndex(sp)
                  rec == result.cohp_data[FileLabels[i + 1]]
              IN  /\ rec.COHP[sp] = Col1(2 * (i + s * (BondCount + 1)) + 3)
                  /\ rec.ICOHP[sp] = Col1(2 * (i + s * (BondCount + 1)) + 4)
        /\ AverageColumns

\* C1 amended: in every decoded COHPCAR file every bond label has a
\* record, and for every spin channel s the record of a label holds, for
\* i the index of the last header line with that label, the columns
\* 2*(i + s*(bondCount+1)) + 3 (COHP) and 2*(i + s*(bondCount+1)) + 4
\* (ICOHP), columns numbered from 0 with the energy in column 0; the
\* sequences of "average" are columns 1+2*s*(bondCount+1) and
\* 2+2*s*(bondCount+1) in the same numbering.
C1_ColumnAddressing ==
    CohpDone =>
        /\ DOMAIN result.cohp_data =
               {FileLabels[i] : i \in 1..BondCount} \cup {AVERAGE}
        /\ \A label \in DOMAIN result.cohp_data \ {AVERAGE} :
              \A sp \in ChannelSet :
                 LET s == SpinIndex(sp)
                     i == LastBond(label)
                     rec == result.cohp_data[label]
                 IN  /\ rec.COHP[sp] = Col0(2 * (i + s * (BondCount + 1)) + 3)
                     /\ rec.ICOHP[sp] = Col0(2 * (i + s * (BondCount + 1)) + 4)
        /\ AverageColumns

\* a spin-polarized file of MaxBonds bonds with different labels is decoded
C1_Witness ==
    /\ CohpDone /\ args.flag = 2 /\ BondCount = MaxBonds
    /\ Cardinality(DOMAIN result.cohp_data) = MaxBonds + 1

----------------------------------------------------------------------------
(* C2 *)

\* C2 as stated: in every decoded COHPCAR file cohp_data has exactly
\* bondCount keys besides "average", and no bond key is "average", also
\* when header lines name the same pair of sites.
C2_AsStated ==
    CohpDone =>
        /\ Cardinality(DOMAIN result.cohp_data \ {AVERAGE}) = BondCount
        /\ \A i \in 1..BondCount : FileLabels[i] # AVERAGE

----------------------------------------------------------------------------
(* C3 *)

\* the number of lines of the file from line 4+bondCount (1-indexed) on
DataRowCount == Len(Lines(text)) - (3 + BondCount)

\* C3: in every decoded COHPCAR file, every COHP and every ICOHP sequence
\* of every record (bonds and "average") and spin channel has as many
\* elements as the energy grid, which has one element per data row.
C3_SequenceLengths ==
    CohpDone =>
        /\ Len(result.energies) = DataRowCount
        /\ \A k \in DOMAIN result.cohp_data :
              LET rec == result.cohp_data[k]
              IN  /\ \A sp \in DOMAIN rec.COHP :
                        Len(rec.COHP[sp]) = Len(result.energies)
                  /\ \A sp \in DOMAIN rec.ICOHP :
                        Len(rec.ICOHP[sp]) = Len(result.energies)

\* a file with a bond and MaxRows data rows is decoded
C3_Witness ==
    /\ CohpDone /\ BondCount >= 1 /\ args.rows = MaxRows
    /\ Len(result.energies) = MaxRows

----------------------------------------------------------------------------
(* C4 *)

\* C4: decoding the header line "No.<n>:<sp1><i1+1>-><sp2><i2+1>(<L>)"
\* returns the label "<sp1><i1+1>-<sp2><i2+1>", the length L and the
\* zero-based site indices (i1, i2).
C4_HeaderRoundTrip ==
    (BondDone /\ args.shape = "ok") =>
        result = [label |-> HeaderLabel(args),
                  length |-> args.L,
                  sites |-> <<args.i1, args.i2>>]

\* the line "No.<n>:Fe1->Fe9(<L>)" is decoded to sites (0, 8), label Fe1-Fe9
C4_Witness ==
    /\ BondDone /\ args.shape = "ok" /\ ~IsErr(result)
    /\ args.i1 = 0 /\ args.i2 = 8
    /\ result.sites = <<0, 8>>
    /\ result.label = <<"F", "e", "1", "-", "F", "e", "9">>

----------------------------------------------------------------------------
(* C5, C6 *)

\* the lines left after the first and the last line are dropped
Body == IF args.wrap THEN args.body ELSE <<>>

\* is the line at index len//2 of the remaining lines a header line
MidIsHeader == Body # <<>> /\ Body[(Len(Body) \div 2) + 1] = "hdr"

\* the number of bonds the layout of the file gives
LayoutBonds == IF MidIsHeader THEN Len(Body) \div 2 ELSE Len(Body)

\* the label "<elem1>-<elem2>" of a data line of the pool
LineLabel(id) == Fields(id).elem1 \o <<"-">> \o Fields(id).elem2

\* C5: in a decoded ICOHPLIST file is_spin_polarized is true exactly when
\* the line at index len//2 of the remaining lines holds "distance"; then
\* the remaining lines are num_bonds lines, the header, and num_bonds
\* lines again, and every record has both channels; otherwise every
\* remaining line is a bond, for an odd and for an even number of lines.
C5_SpinDetection ==
    ListDone =>
        /\ args.wrap /\ Body # <<>>
        /\ result.is_spin_polarized = MidIsHeader
        /\ \A i \in 1..LayoutBonds : Body[i] \notin {"hdr", "bl"}
        /\ DOMAIN result.icohplist =
               {LineLabel(Body[i]) : i \in 1..LayoutBonds}
        /\ MidIsHeader => Len(Body) = 2 * LayoutBonds + 1
        /\ \A k \in DOMAIN result.icohplist :
              DOMAIN result.icohplist[k].icohp =
                  IF MidIsHeader THEN {"up", "down"} ELSE {"up"}

\* a spin-polarized list of two bonds is decoded
C5_Witness ==
    /\ ListDone /\ result.is_spin_polarized
    /\ Len(Body) = 5
    /\ Cardinality(DOMAIN result.icohplist) = 2

\* the first num_bonds data lines carry pairwise different labels
DistinctLabels ==
    /\ \A i \in 1..LayoutBonds : Body[i] \notin {"hdr", "bl"}
    /\ \A i, j \in 1..LayoutBonds :
          i # j => LineLabel(Body[i]) # LineLabel(Body[j])

\* C6: in a decoded ICOHPLIST file whose first num_bonds data lines have
\* different labels, the record of data line b holds the length, the
\* multiplicity and, for spin up, the ICOHP of line b; it has a spin-down
\* value exactly when the file is spin polarized, and that value is the
\* ICOHP column of line b + num_bonds + 1.
C6_RecordContent ==
    (ListDone /\ DistinctLabels) =>
        \A b \in 0..(LayoutBonds - 1) :
           LET f == Fields(Body[b + 1])
               rec == result.icohplist[LineLabel(Body[b + 1])]
           IN  /\ rec.length = f.length
               /\ rec.number_of_bonds = f.n
               /\ rec.icohp["up"] = f.icohp
               /\ ("down" \in DOMAIN rec.icohp) = MidIsHeader
               /\ MidIsHeader =>
                     /\ b + LayoutBonds + 2 <= Len(Body)
                     /\ Body[b + LayoutBonds + 2] \notin {"hdr", "bl"}
                     /\ rec.icohp["down"]
                            = Fields(Body[b + LayoutBonds + 2]).icohp

\* a spin-polarized list of two different bonds whose spin-down lines
\* hold different values is decoded
C6_Witness ==
    /\ ListDone /\ DistinctLabels /\ MidIsHeader /\ LayoutBonds = 2
    /\ Fields(Body[4]).icohp # Fields(Body[5]).icohp
    /\ result.icohplist[LineLabel(Body[2])].icohp["down"] = Fields(Body[5]).icohp

----------------------------------------------------------------------------
(* C7 *)

\* C7: in a decoded COHPCAR file is_spin_polarized is true exactly when
\* the second parameter of line 2 is 2, and the COHP and the ICOHP mapping
\* of every record (bonds and "average") have the keys {up, down} when
\* spin polarized and {up} otherwise.
C7_SpinChannels ==
    CohpDone =>
        /\ result.is_spin_polarized = (args.flag = 2)
        /\ \A k \in DOMAIN result.cohp_data :
              /\ DOMAIN result.cohp_data[k].COHP = ChannelSet
              /\ DOMAIN result.cohp_data[k].ICOHP = ChannelSet

\* a spin-polarized file with a bond is decoded
C7_Witness ==
    /\ CohpDone /\ result.is_spin_polarized /\ BondCount >= 1
    /\ "down" \in DOMAIN result.cohp_data[AVERAGE].COHP

----------------------------------------------------------------------------
(* C8 *)

\* the number of whitespace-separated columns of a line of the pool
Cols(id) ==
    IF id = "hdr" THEN 3 ELSE IF id = "bl" THEN 0 ELSE Fields(id).cols

\* the indices of the data lines of Body: every line but the second
\* header of a spin-polarized file
DataLines ==
    {i \in 1..Len(Body) : ~(MidIsHeader /\ i = (Len(Body) \div 2) + 1)}

\* C8 as stated: constructing an Icohplist fails for a file of fewer than
\* 2 lines, and for a file in which a data line of either spin half has
\* fewer than 6 columns.
C8_AsStated ==
    (mode = "icohplist" /\ pc = "done") =>
        /\ ~args.wrap => IsErr(result)
        /\ (\E i \in DataLines : Cols(Body[i]) < 6) => IsErr(result)

----------------------------------------------------------------------------
(* C9 *)

\* C9 as stated: _get_bond_data fails for every header line without the
\* "(" ... ")" length suffix and for every header line that has not
\* exactly two site tokens after the tag; so does the construction of a
\* Cohpcar from a file with such a header line.
C9_AsStated ==
    /\ (BondDone /\ args.shape # "ok") => IsErr(result)
    /\ (mode = "cohpcar" /\ pc = "done"
          /\ \E i \in 1..BondCount : args.hdrs[i].shape # "ok") => IsErr(result)

----------------------------------------------------------------------------
(* C10 *)

\* the places the decoder fills: the energy grid and, per spin channel,
\* the COHP and ICOHP of the average and of every bond
Slots ==
    {[rec |-> "energy", bond |-> 0, s |-> 0, q |-> "E"]}
      \cup [rec : {"average"}, bond : {0}, s : 0..(NumSpins(args.flag) - 1),
            q : {"COHP", "ICOHP"}]
      \cup [rec : {"bond"}, bond : 0..(BondCount - 1),
            s : 0..(NumSpins(args.flag) - 1), q : {"COHP", "ICOHP"}]

\* the 0-based index of the column the decoder reads into a slot
SlotCol(sl) ==
    CASE sl.rec = "energy" -> 0
      [] sl.rec = "average" /\ sl.q = "COHP" -> AvgCohpCol(sl.s, BondCount)
      [] sl.rec = "average" /\ sl.q = "ICOHP" -> AvgIcohpCol(sl.s, BondCount)
      [] sl.rec = "bond" /\ sl.q = "COHP" -> BondCohpCol(sl.bond, sl.s, BondCount)
      [] sl.rec = "bond" /\ sl.q = "ICOHP" -> BondIcohpCol(sl.bond, sl.s, BondCount)

\* C10: the column indices read for the energy, the average and every
\* bond and spin channel are pairwise different and are together exactly
\* 0 .. 2*(bondCount+1)*numSpins.
C10_ColumnPartition ==
    (mode = "cohpcar" /\ pc = "done") =>
        /\ \A a, b \in Slots : a # b => SlotCol(a) # SlotCol(b)
        /\ {SlotCol(sl) : sl \in Slots} =
               0..(2 * (BondCount + 1) * NumSpins(args.flag))

\* a spin-polarized file of one bond, nine columns wide, is decoded
C10_Witness ==
    /\ CohpDone /\ args.flag = 2 /\ BondCount = 1
    /\ Cardinality(Slots) = 9

=============================================================================
